---------------------------- MODULE Spec2Model ----------------------------
(***************************************************************************)
(* Light-state transition engine of examples/Lightstrip/main/App.cpp:      *)
(* the blending routine nblendU8TowardU8, the timer callback               *)
(* periodic_timer_callback, the four characteristic write handlers and the *)
(* persistence helpers.                                                    *)
(*                                                                         *)
(* Spec       the engine: write handlers and timer ticks, each atomic.     *)
(* SpecRestart  Spec with restarts of the accessory.                       *)
(* SpecLoad   the startup load alone, on every record the store may hold.  *)
(* SpecConc   the write handlers and the callback as two tasks, unlocked.  *)
(* SpecBlend  the blending routine alone, iterated on every pair of bytes. *)
(***************************************************************************)
EXTENDS Integers, Sequences, FiniteSets, TLC

(***************************************************************************)
(* Program constants.                                                      *)
(***************************************************************************)
STEP == 5
HUE_DEFAULT == 125
SATURATION_DEFAULT == 204
BRIGHTNESS_DEFAULT == 120

\* uint8_t: 8 bits wide
U8 == 256
Byte == 0 .. (U8 - 1)

(***************************************************************************)
(* Bounds of the model.                                                    *)
(***************************************************************************)
\* number of characteristic writes delivered by the protocol layer in a run
MaxWrites == 3
\* the tick counter stops counting here
MaxTicks == 300
\* SpecBlend: calls of the blending routine on one byte
MaxCalls == 300
\* SpecRestart: restarts of the accessory in a run
MaxRestarts == 1

\* Values the protocol layer writes: booleans, hue in degrees [0,360),
\* saturation and brightness in percent [0,100].
\*   hue 168 -> 119.0 exactly, 177 -> 125.375 (truncates to HUE_DEFAULT)
\*   saturation 80 -> 204.0 exactly (SATURATION_DEFAULT), 79 -> 201.45
\*   brightness 47 -> 119, 48 -> 122
OnValues == BOOLEAN
HueValues == {168, 177}
SaturationValues == {79, 80}
BrightnessValues == {47, 48}

VARIABLES
    current,        \* accessoryConfiguration.state.current
    target,         \* accessoryConfiguration.state.target
    timerRunning,   \* periodic_timer is started
    store,          \* the record under the configuration key of the key-value store
    last,           \* the last write handler called: its name, value and collaborator calls
    nwrites,        \* write handlers called so far
    ticks,          \* timer callbacks run since the last write handler
    ledBrightness,  \* the brightness last given to FastLED.setBrightness
    restarts,       \* SpecRestart: restarts of the accessory so far
    wpc,            \* SpecConc: where the write handler is, in the protocol task
    tpc,            \* SpecConc: where the timer callback is, in the timer task
    b0,             \* SpecBlend: the byte before the first call
    bprev,          \* SpecBlend: the byte before the last call
    bc,             \* SpecBlend: the byte being blended
    bt,             \* SpecBlend: the byte blended towards
    bcalls          \* SpecBlend: calls of the blending routine so far

engineVars == <<current, target, timerRunning, store, last, nwrites, ticks, ledBrightness>>
blendVars == <<b0, bprev, bc, bt, bcalls>>
concVars == <<wpc, tpc>>
vars == <<current, target, timerRunning, store, last, nwrites, ticks, ledBrightness, restarts,
          wpc, tpc, b0, bprev, bc, bt, bcalls>>

(***************************************************************************)
(* FastLED's scale8_video(i, scale): i * scale / 256, but never 0 when     *)
(* both i and scale are nonzero.                                           *)
(***************************************************************************)
\* faulty variant: scale8, which rounds small products down to 0
scale8_plain(i, scale) == (i * scale) \div U8

scale8_video(i, scale) ==
    ((i * scale) \div U8) + (IF i # 0 /\ scale # 0 THEN 1 ELSE 0)

(***************************************************************************)
(* nblendU8TowardU8(current, target): the new value of `current`.          *)
(* direction is a uint8_t, so -1 is stored as 255; delta * direction is    *)
(* computed in int and the sum is truncated to 8 bits by the += on a       *)
(* uint8_t.                                                                *)
(***************************************************************************)
\* faulty variant: the direction of the plain comparison, never the wrap-around one
BlendDirectionLinear(c, t) == IF c < t THEN 1 ELSE U8 - 1

BlendDirection(c, t) ==
    IF c < t
    THEN (IF t - c <= 180 THEN 1 ELSE U8 - 1)
    ELSE (IF c - t <= 180 THEN U8 - 1 ELSE 1)

BlendDelta(c, t) ==
    IF c < t
    THEN scale8_video(t - c, STEP)
    ELSE scale8_video(c - t, STEP)

nblendU8TowardU8(c, t) ==
    IF c = t
    THEN c
    ELSE (c + BlendDelta(c, t) * BlendDirection(c, t)) % U8

(***************************************************************************)
(* The lightstrip struct and the state after AppCreate on an empty store   *)
(* (LoadAccessoryState: zeroed, then the defaults).                        *)
(***************************************************************************)
DefaultLightstrip ==
    [on |-> FALSE, brightness |-> BRIGHTNESS_DEFAULT,
     hue |-> HUE_DEFAULT, sat |-> SATURATION_DEFAULT, val |-> BRIGHTNESS_DEFAULT]

\* HAPRawBufferZero on a lightstrip
ZeroLightstrip == [on |-> FALSE, brightness |-> 0, hue |-> 0, sat |-> 0, val |-> 0]

\* sizeof accessoryConfiguration.state: two lightstrips of a bool, a uint8_t
\* and the three bytes of a CHSV
SizeofState == 10

\* the key-value store without a record under the configuration key
NotFound ==
    [found |-> FALSE, numBytes |-> 0,
     state |-> [current |-> ZeroLightstrip, target |-> ZeroLightstrip]]

\* no write handler called yet; calls lists the collaborator calls of the
\* handler in the order it makes them
\* FastLED's brightness before the first setBrightness: full scale
FastLEDBrightnessAtStart == U8 - 1

NoWrite ==
    [op |-> "none", value |-> 0, update |-> 0, save |-> 0, raise |-> 0, calls |-> <<>>]

\* CHSV operator== : the three colour bytes
LedEqual(a, b) == a.hue = b.hue /\ a.sat = b.sat /\ a.val = b.val

Converged == LedEqual(current, target) /\ current.on = target.on

Init ==
    /\ current = DefaultLightstrip
    /\ target = DefaultLightstrip
    /\ timerRunning = FALSE
    /\ store = NotFound
    /\ last = NoWrite
    /\ nwrites = 0
    /\ ticks = 0
    /\ ledBrightness = FastLEDBrightnessAtStart
    /\ restarts = 0
    /\ wpc = "idle"
    /\ tpc = "idle"
    /\ b0 = 0
    /\ bprev = 0
    /\ bc = 0
    /\ bt = 0
    /\ bcalls = 0

(***************************************************************************)
(* update(): esp_timer_start_periodic; ESP_ERR_INVALID_STATE (already      *)
(* running) is ignored, so the timer runs afterwards either way.           *)
(***************************************************************************)
update(running) == TRUE

(***************************************************************************)
(* SaveAccessoryState(): the whole state struct, current and target, is    *)
(* written under the configuration key.                                    *)
(***************************************************************************)
SaveAccessoryState(cur, tgt) ==
    [found |-> TRUE, numBytes |-> SizeofState, state |-> [current |-> cur, target |-> tgt]]

(***************************************************************************)
(* The common tail of an accepted write: update(); SaveAccessoryState();   *)
(* HAPAccessoryServerRaiseEvent().  A rejected write does none of them.    *)
(***************************************************************************)
AcceptedCalls == <<"update", "SaveAccessoryState", "HAPAccessoryServerRaiseEvent">>

\* faulty variant: the state is saved before target is assigned
AcceptedSaveFirst(op, value, newTarget) ==
    /\ target' = newTarget
    /\ timerRunning' = update(timerRunning)
    /\ store' = SaveAccessoryState(current, target)
    /\ last' = [op |-> op, value |-> value, update |-> 1, save |-> 1, raise |-> 1,
                calls |-> <<"SaveAccessoryState", "update", "HAPAccessoryServerRaiseEvent">>]

Accepted(op, value, newTarget) ==
    /\ target' = newTarget
    /\ timerRunning' = update(timerRunning)
    /\ store' = SaveAccessoryState(current, newTarget)
    /\ last' = [op |-> op, value |-> value, update |-> 1, save |-> 1, raise |-> 1,
                calls |-> AcceptedCalls]

Rejected(op, value) ==
    /\ last' = [op |-> op, value |-> value, update |-> 0, save |-> 0, raise |-> 0,
                calls |-> <<>>]
    /\ UNCHANGED <<target, timerRunning, store>>

WriteFrame ==
    /\ nwrites < MaxWrites
    /\ nwrites' = nwrites + 1
    /\ ticks' = 0
    /\ UNCHANGED <<current, ledBrightness, restarts, concVars, blendVars>>

\* faulty variant: the two branches that set target.brightness swapped
HandleLightBulbOnWriteSwapped(value) ==
    /\ WriteFrame
    /\ IF target.on # value
       THEN Accepted("setOn", value,
                     [target EXCEPT !.on = value,
                                    !.brightness = IF value THEN 0 ELSE target.val])
       ELSE Rejected("setOn", value)

HandleLightBulbOnWrite(value) ==
    /\ WriteFrame
    /\ IF target.on # value
       THEN Accepted("setOn", value,
                     [target EXCEPT !.on = value,
                                    !.brightness = IF value THEN target.val ELSE 0])
       ELSE Rejected("setOn", value)

\* value = (value * 255) / 360 is a float; the comparison with the stored
\* byte is made on the float, the assignment truncates it.
HueAccepts(hue, value) == hue * 360 # value * 255
HueByte(value) == (value * 255) \div 360

\* faulty variant: the handler assigns the hue of current as well
HandleLightBulbHueWriteDirect(value) ==
    /\ nwrites < MaxWrites
    /\ nwrites' = nwrites + 1
    /\ ticks' = 0
    /\ current' = [current EXCEPT !.hue = HueByte(value)]
    /\ UNCHANGED <<ledBrightness, restarts, concVars, blendVars>>
    /\ IF HueAccepts(target.hue, value)
       THEN Accepted("setHue", value, [target EXCEPT !.hue = HueByte(value)])
       ELSE Rejected("setHue", value)

HandleLightBulbHueWrite(value) ==
    /\ WriteFrame
    /\ IF HueAccepts(target.hue, value)
       THEN Accepted("setHue", value, [target EXCEPT !.hue = HueByte(value)])
       ELSE Rejected("setHue", value)

\* value = (value * 255) / 100, a float as for the hue
SaturationAccepts(sat, value) == sat * 100 # value * 255
SaturationByte(value) == (value * 255) \div 100

HandleLightBulbSaturationWrite(value) ==
    /\ WriteFrame
    /\ IF SaturationAccepts(target.sat, value)
       THEN Accepted("setSaturation", value, [target EXCEPT !.sat = SaturationByte(value)])
       ELSE Rejected("setSaturation", value)

\* value is an int here: (value * 255) / 100 is an integer division
BrightnessByte(value) == (value * 255) \div 100

\* faulty variant: target.brightness is not assigned with target.val
HandleLightBulbBrightnessWriteValOnly(value) ==
    /\ WriteFrame
    /\ IF target.val # BrightnessByte(value)
       THEN Accepted("setBrightness", value, [target EXCEPT !.val = BrightnessByte(value)])
       ELSE Rejected("setBrightness", value)

\* faulty variant: the comparison with the value target holds is missing
HandleLightBulbBrightnessWriteAlways(value) ==
    /\ WriteFrame
    /\ Accepted("setBrightness", value,
                [target EXCEPT !.val = BrightnessByte(value),
                               !.brightness = BrightnessByte(value)])

HandleLightBulbBrightnessWrite(value) ==
    /\ WriteFrame
    /\ IF target.val # BrightnessByte(value)
       THEN Accepted("setBrightness", value,
                     [target EXCEPT !.val = BrightnessByte(value),
                                    !.brightness = BrightnessByte(value)])
       ELSE Rejected("setBrightness", value)

(***************************************************************************)
(* periodic_timer_callback: one tick.                                      *)
(***************************************************************************)
\* faulty variant: current.on follows target.on on the first step of the fade
FadeOnOffEarly(cur, tgt) ==
    LET cb == cur.brightness
        tb == tgt.brightness
    IN  IF tgt.on
        THEN IF tb >= cb
             THEN IF tb - cb < STEP
                  THEN <<tb, TRUE>>
                  ELSE <<(cb + STEP) % U8, TRUE>>
             ELSE <<cb, cur.on>>
        ELSE IF cb >= tb
             THEN IF cb - tb < STEP
                  THEN <<tb, FALSE>>
                  ELSE <<(cb - STEP) % U8, FALSE>>
             ELSE <<cb, cur.on>>

\* the on/off branch: the new <<brightness, on>> of current
FadeOnOff(cur, tgt) ==
    LET cb == cur.brightness
        tb == tgt.brightness
    IN  IF tgt.on
        THEN IF tb >= cb
             THEN IF tb - cb < STEP
                  THEN <<tb, TRUE>>
                  ELSE <<(cb + STEP) % U8, cur.on>>
             ELSE <<cb, cur.on>>
        ELSE IF cb >= tb
             THEN IF cb - tb < STEP
                  THEN <<tb, FALSE>>
                  ELSE <<(cb - STEP) % U8, cur.on>>
             ELSE <<cb, cur.on>>

\* faulty variant: val is blended in the on/off branch too
TickCurrentValAlways(cur, tgt) ==
    LET edge == cur.on # tgt.on
        fade == FadeOnOff(cur, tgt)
    IN  [on |-> IF edge THEN fade[2] ELSE cur.on,
         brightness |-> IF edge THEN fade[1] ELSE cur.brightness,
         val |-> nblendU8TowardU8(cur.val, tgt.val),
         hue |-> nblendU8TowardU8(cur.hue, tgt.hue),
         sat |-> nblendU8TowardU8(cur.sat, tgt.sat)]

TickCurrent(cur, tgt) ==
    LET edge == cur.on # tgt.on
        fade == FadeOnOff(cur, tgt)
    IN  [on |-> IF edge THEN fade[2] ELSE cur.on,
         brightness |-> IF edge THEN fade[1] ELSE cur.brightness,
         val |-> IF edge THEN cur.val ELSE nblendU8TowardU8(cur.val, tgt.val),
         hue |-> nblendU8TowardU8(cur.hue, tgt.hue),
         sat |-> nblendU8TowardU8(cur.sat, tgt.sat)]

\* faulty variant: the on flags are not compared
TimerStopsLedOnly(cur, tgt) == LedEqual(cur, tgt)

\* the test that stops the timer at the end of the callback
TimerStops(cur, tgt) == LedEqual(cur, tgt) /\ cur.on = tgt.on

\* the argument of FastLED.setBrightness in the callback
TickBrightness(cur, tgt) ==
    IF cur.on # tgt.on
    THEN TickCurrent(cur, tgt).brightness
    ELSE TickCurrent(cur, tgt).val

periodic_timer_callback ==
    /\ timerRunning
    /\ current' = TickCurrent(current, target)
    /\ ledBrightness' = TickBrightness(current, target)
    /\ timerRunning' = ~TimerStops(current', target)
    /\ ticks' = IF ticks < MaxTicks THEN ticks + 1 ELSE ticks
    /\ UNCHANGED <<target, store, last, nwrites, restarts, concVars, blendVars>>

Next ==
    \/ \E value \in OnValues : HandleLightBulbOnWrite(value)
    \/ \E value \in HueValues : HandleLightBulbHueWrite(value)
    \/ \E value \in SaturationValues : HandleLightBulbSaturationWrite(value)
    \/ \E value \in BrightnessValues : HandleLightBulbBrightnessWrite(value)
    \/ periodic_timer_callback

Spec == Init /\ [][Next]_vars

(***************************************************************************)
(* SpecRestart: the engine, restarted on the store as the write handlers   *)
(* have left it (AppCreate and AppInitialize run again).                   *)
(***************************************************************************)
\* HAPPlatformKeyValueStoreGet into a lightstrip of the state struct that
\* starts at byte `base`: the first numBytes bytes of the record are copied
HAPPlatformKeyValueStoreGet(buf, rec, base, numBytes) ==
    [on |-> IF base + 1 <= numBytes THEN rec.on ELSE buf.on,
     brightness |-> IF base + 2 <= numBytes THEN rec.brightness ELSE buf.brightness,
     hue |-> IF base + 3 <= numBytes THEN rec.hue ELSE buf.hue,
     sat |-> IF base + 4 <= numBytes THEN rec.sat ELSE buf.sat,
     val |-> IF base + 5 <= numBytes THEN rec.val ELSE buf.val]

\* the defaults assigned after the reset: led and brightness
SetDefaults(ls) ==
    [ls EXCEPT !.hue = HUE_DEFAULT, !.sat = SATURATION_DEFAULT,
               !.val = BRIGHTNESS_DEFAULT, !.brightness = BRIGHTNESS_DEFAULT]

\* the state struct as the Get leaves it; AppCreate has zeroed it before
StateRead(st) ==
    IF st.found
    THEN [current |-> HAPPlatformKeyValueStoreGet(ZeroLightstrip, st.state.current,
                                                  0, st.numBytes),
          target |-> HAPPlatformKeyValueStoreGet(ZeroLightstrip, st.state.target,
                                                 5, st.numBytes)]
    ELSE [current |-> ZeroLightstrip, target |-> ZeroLightstrip]

\* faulty variant: the HAPRawBufferZero before the defaults is missing
LoadAccessoryStateNoZero(st) ==
    IF ~st.found \/ st.numBytes # SizeofState
    THEN [current |-> SetDefaults(StateRead(st).current),
          target |-> SetDefaults(StateRead(st).target)]
    ELSE StateRead(st)

\* LoadAccessoryState(): the state struct afterwards
LoadAccessoryState(st) ==
    IF ~st.found \/ st.numBytes # SizeofState
    THEN [current |-> SetDefaults(ZeroLightstrip), target |-> SetDefaults(ZeroLightstrip)]
    ELSE StateRead(st)

Booted ==
    [op |-> "AppCreate", value |-> 0, update |-> 0, save |-> 0, raise |-> 0, calls |-> <<>>]

\* AppCreate (LoadAccessoryState) and AppInitialize (esp_timer_create: a
\* new timer, not started) after a restart
AppCreate ==
    /\ restarts < MaxRestarts
    /\ restarts' = restarts + 1
    /\ current' = LoadAccessoryState(store).current
    /\ target' = LoadAccessoryState(store).target
    /\ timerRunning' = FALSE
    /\ last' = Booted
    /\ ticks' = 0
    /\ ledBrightness' = FastLEDBrightnessAtStart
    /\ UNCHANGED <<store, nwrites, concVars, blendVars>>

NextRestart ==
    \/ Next
    \/ AppCreate

SpecRestart == Init /\ [][NextRestart]_vars

(***************************************************************************)
(* SpecLoad: AppCreate on every record the store may hold when the         *)
(* accessory starts: none, or one of 0, 1, 5, 6, 9 or 10 bytes holding any *)
(* two of the lightstrips below.                                           *)
(***************************************************************************)
StoredLightstrips ==
    { ZeroLightstrip,
      DefaultLightstrip,
      [on |-> TRUE, brightness |-> 119, hue |-> 119, sat |-> 201, val |-> 119],
      [on |-> TRUE, brightness |-> 0, hue |-> 17, sat |-> 255, val |-> 122] }

StoredSizes == {0, 1, 5, 6, 9, SizeofState}

InitialStores ==
    {NotFound} \cup
    [found : {TRUE}, numBytes : StoredSizes,
     state : [current : StoredLightstrips, target : StoredLightstrips]]

\* AppCreate has zeroed accessoryConfiguration; LoadAccessoryState is next
InitLoad ==
    /\ store \in InitialStores
    /\ current = ZeroLightstrip
    /\ target = ZeroLightstrip
    /\ timerRunning = FALSE
    /\ last = NoWrite
    /\ nwrites = 0
    /\ ticks = 0
    /\ ledBrightness = FastLEDBrightnessAtStart
    /\ restarts = 0
    /\ wpc = "idle"
    /\ tpc = "idle"
    /\ b0 = 0
    /\ bprev = 0
    /\ bc = 0
    /\ bt = 0
    /\ bcalls = 0

NextLoad == AppCreate

SpecLoad == InitLoad /\ [][NextLoad]_vars

(***************************************************************************)
(* SpecConc: a write handler in the protocol task and the timer callback   *)
(* in the esp_timer task (dispatch_method ESP_TIMER_TASK), with no lock    *)
(* between them: the steps of the two interleave.                          *)
(*   write handler: compare and assign target; update();                   *)
(*                  SaveAccessoryState(); HAPAccessoryServerRaiseEvent()   *)
(*   callback:      advance current and show it; test current against      *)
(*                  target; esp_timer_stop()                               *)
(***************************************************************************)
WriteCalls ==
    ({"setOn"} \X OnValues) \cup ({"setHue"} \X HueValues) \cup
    ({"setSaturation"} \X SaturationValues) \cup ({"setBrightness"} \X BrightnessValues)

\* the comparison that opens each write handler
WriteAccepts(op, value, tgt) ==
    CASE op = "setOn" -> tgt.on # value
      [] op = "setHue" -> HueAccepts(tgt.hue, value)
      [] op = "setSaturation" -> SaturationAccepts(tgt.sat, value)
      [] op = "setBrightness" -> tgt.val # BrightnessByte(value)

\* the assignments to target that follow it
WriteTarget(op, value, tgt) ==
    CASE op = "setOn" ->
             [tgt EXCEPT !.on = value, !.brightness = IF value THEN tgt.val ELSE 0]
      [] op = "setHue" -> [tgt EXCEPT !.hue = HueByte(value)]
      [] op = "setSaturation" -> [tgt EXCEPT !.sat = SaturationByte(value)]
      [] op = "setBrightness" ->
             [tgt EXCEPT !.val = BrightnessByte(value), !.brightness = BrightnessByte(value)]

WriteAssign ==
    /\ wpc = "idle"
    /\ nwrites < MaxWrites
    /\ \E call \in WriteCalls :
          /\ last' = [op |-> call[1], value |-> call[2],
                      update |-> 0, save |-> 0, raise |-> 0, calls |-> <<>>]
          /\ IF WriteAccepts(call[1], call[2], target)
             THEN target' = WriteTarget(call[1], call[2], target) /\ wpc' = "update"
             ELSE target' = target /\ wpc' = "idle"
    /\ nwrites' = nwrites + 1
    /\ ticks' = 0
    /\ UNCHANGED <<current, timerRunning, store, ledBrightness, restarts, tpc, blendVars>>

WriteUpdate ==
    /\ wpc = "update"
    /\ timerRunning' = update(timerRunning)
    /\ last' = [last EXCEPT !.update = 1, !.calls = Append(@, "update")]
    /\ wpc' = "save"
    /\ UNCHANGED <<current, target, store, nwrites, ticks, ledBrightness, restarts, tpc,
                   blendVars>>

WriteSave ==
    /\ wpc = "save"
    /\ store' = SaveAccessoryState(current, target)
    /\ last' = [last EXCEPT !.save = 1, !.calls = Append(@, "SaveAccessoryState")]
    /\ wpc' = "raise"
    /\ UNCHANGED <<current, target, timerRunning, nwrites, ticks, ledBrightness, restarts,
                   tpc, blendVars>>

WriteRaise ==
    /\ wpc = "raise"
    /\ last' = [last EXCEPT !.raise = 1, !.calls = Append(@, "HAPAccessoryServerRaiseEvent")]
    /\ wpc' = "idle"
    /\ UNCHANGED <<current, target, timerRunning, store, nwrites, ticks, ledBrightness,
                   restarts, tpc, blendVars>>

\* the timer fires: lines 151-185 of the callback
TickAdvance ==
    /\ tpc = "idle"
    /\ timerRunning
    /\ current' = TickCurrent(current, target)
    /\ ledBrightness' = TickBrightness(current, target)
    /\ ticks' = IF ticks < MaxTicks THEN ticks + 1 ELSE ticks
    /\ tpc' = "test"
    /\ UNCHANGED <<target, timerRunning, store, last, nwrites, restarts, wpc, blendVars>>

\* lines 187-188: the condition of the if
TickTest ==
    /\ tpc = "test"
    /\ tpc' = IF TimerStops(current, target) THEN "stop" ELSE "idle"
    /\ UNCHANGED <<engineVars, restarts, wpc, blendVars>>

\* line 189: esp_timer_stop
TickStop ==
    /\ tpc = "stop"
    /\ timerRunning' = FALSE
    /\ tpc' = "idle"
    /\ UNCHANGED <<current, target, store, last, nwrites, ticks, ledBrightness, restarts,
                   wpc, blendVars>>

NextConc ==
    \/ WriteAssign
    \/ WriteUpdate
    \/ WriteSave
    \/ WriteRaise
    \/ TickAdvance
    \/ TickTest
    \/ TickStop

SpecConc == Init /\ [][NextConc]_vars

(***************************************************************************)
(* SpecBlend: nblendU8TowardU8 called again and again on one byte, from    *)
(* every pair (current, target) of bytes.                                  *)
(***************************************************************************)
InitBlend ==
    /\ b0 \in Byte
    /\ bt \in Byte
    /\ bc = b0
    /\ bprev = b0
    /\ bcalls = 0
    /\ current = DefaultLightstrip
    /\ target = DefaultLightstrip
    /\ timerRunning = FALSE
    /\ store = NotFound
    /\ last = NoWrite
    /\ nwrites = 0
    /\ ticks = 0
    /\ ledBrightness = FastLEDBrightnessAtStart
    /\ restarts = 0
    /\ wpc = "idle"
    /\ tpc = "idle"

\* The routine is called once on every pair, and again while the byte has
\* not reached its target.
Blend ==
    /\ bcalls = 0 \/ bc # bt
    /\ bcalls < MaxCalls
    /\ bprev' = bc
    /\ bc' = nblendU8TowardU8(bc, bt)
    /\ bcalls' = bcalls + 1
    /\ UNCHANGED <<b0, bt, engineVars, restarts, concVars>>

NextBlend == Blend

SpecBlend == InitBlend /\ [][NextBlend]_vars

(***************************************************************************)
(* Properties of the blending routine (SpecBlend).                         *)
(***************************************************************************)
Abs(x) == IF x < 0 THEN -x ELSE x

\* a call has been made, on a byte that was not at its target
Blended == bcalls >= 1 /\ bprev # bt

\* the last call moved the byte up (down) by 1..STEP, modulo 256
MovedUp == ((bc - bprev) % U8) \in 1 .. STEP
MovedDown == ((bprev - bc) % U8) \in 1 .. STEP

\* C2: one call of nblendU8TowardU8 leaves the distance to the target no
\* larger than it was, and the sign of target - current never flips.
C2_NoOvershoot ==
    Blended =>
        /\ Abs(bt - bc) <= Abs(bt - bprev)
        /\ (bt - bprev) * (bt - bc) >= 0

\* C9: the routine moves in the direction whose distance to the target,
\* modulo 256, is the smaller of the two.
C9_ShorterCircularDirection ==
    Blended =>
        LET up == (bt - bprev) % U8
            down == (bprev - bt) % U8
        IN  /\ up < down => MovedUp /\ ~MovedDown
            /\ down < up => MovedDown /\ ~MovedUp

\* C10: the routine moves up when current < target and target - current <= 180,
\* down when current < target and target - current > 180, down when
\* current > target and current - target <= 180, and up otherwise; from 10
\* towards 250 the byte goes down through 0 (10, 5, 0, 251, 250).
C10_DirectionRule ==
    /\ Blended =>
           IF bprev < bt
           THEN IF bt - bprev <= 180
                THEN MovedUp /\ ~MovedDown
                ELSE MovedDown /\ ~MovedUp
           ELSE IF bprev - bt <= 180
                THEN MovedDown /\ ~MovedUp
                ELSE MovedUp /\ ~MovedDown
    /\ (b0 = 10 /\ bt = 250) => bc \in {10, 5, 0, 251, 250}

\* C10 witness: the byte that started at 10 has gone below 0 towards 250
W_C10_WrappedThroughZero ==
    b0 = 10 /\ bt = 250 /\ bprev = 0 /\ bc = 251 /\ bcalls = 3

\* C11: a call with current = target returns current unchanged; a call
\* with current # target changes current by at least 1 and at most STEP;
\* repeated calls reach the target, in at most 256 calls.
C11_BlenderTermination ==
    /\ (bcalls >= 1 /\ bprev = bt) => bc = bprev
    /\ Blended => (MovedUp \/ MovedDown)
    /\ bc # bt => bcalls < U8

\* C11 witness: the target reached after 100 calls, the longest run there is
W_C11_ReachedAfterLongestRun ==
    b0 # bt /\ bc = bt /\ bprev # bt /\ bcalls = 100

(***************************************************************************)
(* Properties of the engine (Spec).                                        *)
(***************************************************************************)
\* the step is a call of a write handler
IsWrite == nwrites' = nwrites + 1
\* the step is a run of the timer callback
IsTick == nwrites' = nwrites

\* C1: once writes have stopped, ticks reach current = target with the
\* timer stopped, within 256 ticks.
C1_Convergence ==
    ticks >= U8 => Converged /\ ~timerRunning

\* C3: a tick that changes current.on leaves current.brightness equal to
\* target.brightness, and current.on equal to target.on.
C3_OnOffAtomicity ==
    [][(IsTick /\ current'.on # current.on) =>
          (current'.brightness = target'.brightness /\ current'.on = target'.on)]_vars

\* C3 witness: the light has faded to 0 and has then been switched off by a tick
W_C3_SwitchedOffAtZero ==
    /\ last.op = "setOn" /\ last.value = FALSE /\ last.save = 1
    /\ ticks >= 1
    /\ current.on = FALSE /\ current.brightness = 0 /\ target.brightness = 0

\* the value of a write is the one target already holds
ValueHeld(w, tgt) ==
    CASE w.op = "setOn" -> w.value = tgt.on
      [] w.op = "setHue" -> w.value * 255 = tgt.hue * 360
      [] w.op = "setSaturation" -> w.value * 255 = tgt.sat * 100
      [] w.op = "setBrightness" -> (w.value * 255) \div 100 = tgt.val
      [] OTHER -> FALSE

\* C4: a write of the value target already holds changes neither current
\* nor target, does not start the timer, saves nothing and raises no event.
C4_Debounce ==
    [][(IsWrite /\ ValueHeld(last', target)) =>
          /\ current' = current
          /\ target' = target
          /\ timerRunning' = timerRunning
          /\ store' = store
          /\ last'.update = 0 /\ last'.save = 0 /\ last'.raise = 0]_vars

\* C4 witness: hue 168 (119 exactly) written while target.hue is 119, with
\* the timer stopped
W_C4_SameHueRejected ==
    /\ last.op = "setHue" /\ last.value = 168 /\ last.update = 0
    /\ target.hue = 119
    /\ ~timerRunning

\* C5: a hue write that rescales to the byte target.hue already holds does
\* not start the timer and saves nothing.
C5_SameByteHueNoOp ==
    [][(IsWrite /\ last'.op = "setHue" /\ HueByte(last'.value) = target.hue) =>
          /\ target' = target
          /\ timerRunning' = timerRunning
          /\ store' = store
          /\ last'.update = 0 /\ last'.save = 0]_vars

\* C6: from the default state, setOn(true) sets target.on and
\* target.brightness = 120 and starts the timer; one tick later current.on
\* is true, current.brightness is 120 and the timer is stopped.
C6_OnTransition ==
    (nwrites = 1 /\ last.op = "setOn" /\ last.value = TRUE) =>
        /\ target.on /\ target.brightness = 120
        /\ last.update = 1
        /\ ticks = 0 => timerRunning /\ ~current.on
        /\ ticks >= 1 => current.on /\ current.brightness = 120 /\ ~timerRunning

\* C6 witness: the transition has completed
W_C6_SwitchedOn ==
    /\ nwrites = 1 /\ last.op = "setOn" /\ last.value = TRUE
    /\ ticks = 1
    /\ current.on /\ ~timerRunning

\* C7: when a transition has converged and the timer has stopped, the
\* stored record equals the state in memory.
C7_StoredMatchesMemory ==
    (store.found /\ Converged /\ ~timerRunning) =>
        store.state = [current |-> current, target |-> target]

\* C8: whenever current differs from target in hue, saturation, value or
\* on flag, the timer is running.
C8_TransitioningIsArmed ==
    ~Converged => timerRunning

\* C8 witness: in the middle of a transition, after a tick
W_C8_MidTransition ==
    ~Converged /\ timerRunning /\ ticks >= 1 /\ current # DefaultLightstrip

\* the write has put its value into target
ValueWritten(w, tgt) ==
    CASE w.op = "setOn" -> tgt.on = w.value
      [] w.op = "setHue" -> tgt.hue = (w.value * 255) \div 360
      [] w.op = "setSaturation" -> tgt.sat = (w.value * 255) \div 100
      [] w.op = "setBrightness" -> tgt.val = (w.value * 255) \div 100
      [] OTHER -> FALSE

\* C12: a write of a value that differs from the one in target assigns
\* target, then starts the timer, then saves {current, target} as they are
\* then, then raises one event.
C12_AcceptedWrite ==
    [][(IsWrite /\ ~ValueHeld(last', target)) =>
          /\ ValueWritten(last', target')
          /\ timerRunning'
          /\ store'.found
          /\ store'.state = [current |-> current', target |-> target']
          /\ last'.calls = <<"update", "SaveAccessoryState", "HAPAccessoryServerRaiseEvent">>
          /\ last'.update = 1 /\ last'.save = 1 /\ last'.raise = 1]_vars

\* C12 witness: an accepted saturation write in the middle of a transition,
\* saved with the current of that moment
W_C12_SavedMidTransition ==
    /\ last.op = "setSaturation" /\ last.value = 79 /\ last.raise = 1
    /\ ticks = 0
    /\ target.sat = 201
    /\ store.state.target.sat = 201
    /\ store.state.current = current
    /\ current # DefaultLightstrip

(***************************************************************************)
(* Properties of the startup load (SpecLoad) and of the restart            *)
(* (SpecRestart).                                                          *)
(***************************************************************************)
\* C13: when the record is absent, or present with another size than the
\* expected one, the whole state is the factory defaults after the load;
\* a record of the expected size is loaded unchanged.
C13_StartupLoad ==
    last.op = "AppCreate" =>
        IF ~store.found \/ store.numBytes # SizeofState
        THEN /\ current = [on |-> FALSE, brightness |-> 120,
                           hue |-> 125, sat |-> 204, val |-> 120]
             /\ target = current
        ELSE /\ current = store.state.current
             /\ target = store.state.target

\* C13 witness: a 5-byte record of a light that is on has been discarded
W_C13_WrongSizeDiscarded ==
    /\ last.op = "AppCreate"
    /\ store.found /\ store.numBytes = 5 /\ store.state.current.on
    /\ ~current.on /\ current.hue = 125

\* C19: after a restart that loads the record of the last accepted write,
\* current equals target or the timer is running.
C19_RestartResumes ==
    (last.op = "AppCreate" /\ store.found /\ store.numBytes = SizeofState) =>
        (Converged \/ timerRunning)

\* the step is a write handler or a tick, not a restart
IsEngineStep == restarts' = restarts

\* C14: a write handler leaves every field of current unchanged, and a tick
\* leaves every field of target unchanged.
C14_SingleWriter ==
    [][/\ IsWrite => current' = current
       /\ (IsEngineStep /\ ~IsWrite) => target' = target]_vars

\* C14 witness: writes and ticks have changed both target and current
W_C14_BothChanged ==
    /\ nwrites >= 2 /\ ticks >= 1
    /\ current # DefaultLightstrip /\ target # DefaultLightstrip
    /\ current.hue # target.hue

\* C15: a tick with current.on # target.on and current.brightness #
\* target.brightness moves current.brightness strictly closer to
\* target.brightness: by STEP, or onto it when it is closer than STEP.
C15_FadeProgress ==
    [][(IsEngineStep /\ ~IsWrite
        /\ current.on # target.on /\ current.brightness # target.brightness) =>
          /\ Abs(target.brightness - current'.brightness)
                 < Abs(target.brightness - current.brightness)
          /\ \/ current'.brightness = target.brightness
             \/ Abs(current'.brightness - current.brightness) = STEP]_vars

\* C16: a tick with current.on # target.on leaves current.val unchanged; a
\* tick with current.on = target.on leaves current.on and current.brightness
\* unchanged; every tick moves current.hue and current.sat one blending
\* step towards their targets.
C16_TickBranches ==
    [][(IsEngineStep /\ ~IsWrite) =>
          /\ current.on # target.on => current'.val = current.val
          /\ current.on = target.on =>
                 (current'.on = current.on /\ current'.brightness = current.brightness)
          /\ current'.hue = nblendU8TowardU8(current.hue, target.hue)
          /\ current'.sat = nblendU8TowardU8(current.sat, target.sat)]_vars

\* C16 witness: during a fade to off, the hue has moved while val has not
W_C16_HueMovesDuringFade ==
    /\ current.on /\ ~target.on
    /\ ticks >= 1
    /\ current.brightness < 120
    /\ current.hue # 125 /\ current.val = 120 /\ target.val = 120

\* C17: whenever target.on is true, target.brightness equals target.val;
\* after an accepted setOn(false), target.brightness is 0.
C17_BrightnessCoupling ==
    /\ target.on => target.brightness = target.val
    /\ (last.op = "setOn" /\ last.value = FALSE /\ last.save = 1) => target.brightness = 0

\* C17 witness: the brightness written while the light is on
W_C17_BrightnessWrittenWhileOn ==
    /\ target.on
    /\ last.op = "setBrightness" /\ last.save = 1
    /\ target.brightness = 122 /\ target.val = 122

\* C20: a tick that runs while current.on and target.on are both false
\* gives FastLED the brightness 0.
C20_OffStaysDark ==
    [][(IsEngineStep /\ ~IsWrite /\ ~current.on /\ ~target.on) => ledBrightness' = 0]_vars

(***************************************************************************)
(* Properties of the two tasks running together (SpecConc).                *)
(***************************************************************************)
\* C18: once the write handler and the timer callback have both finished,
\* current # target implies that the timer is running.
C18_NoLostWakeup ==
    (wpc = "idle" /\ tpc = "idle") => (~Converged => timerRunning)

=============================================================================
